---- MODULE Spec2Model ----
(***************************************************************************)
(* LS7366R quadrature-counter driver (firmware/SpiTest/src/LS7366R.hpp and *)
(* LS7366R.cpp) as a state machine: one channel object, the SPI bus and    *)
(* chip-select pin it drives, and the LS7366R chip at the other end.       *)
(*                                                                         *)
(* Numbers.  int32_t values are TLC integers in INT32_MIN..INT32_MAX.  A   *)
(* float is a record [m, e] standing for m * 2^e with |m| < 2^24 (IEEE-754 *)
(* single precision, round-to-nearest-even; exponent range, infinities and *)
(* NaN are outside the model).  Chip registers are MSB-first byte tuples.  *)
(***************************************************************************)
EXTENDS Integers, Sequences, FiniteSets, TLC

VARIABLES
  ss,          \* LS7366R::ss          chip-select pin number
  mode,        \* LS7366R::mode        CounterMode code
  multiplier,  \* LS7366R::multiplier  float [m, e]
  range,       \* LS7366R::range       uint32_t
  reverse,     \* LS7366R::reverse     bool
  pinLevel,    \* level last written to pin ss by digitalWrite
  pinDir,      \* direction of pin ss set by pinMode
  spiOpen,     \* SPI transactions begun and not yet ended
  op,          \* the operation being executed ("none" when the caller runs)
  pc,          \* index of the next statement of op's body; 0 = not running
  retval,      \* local retval of Read16/Read32
  ret,         \* value returned by the operation that has just returned
  rx,          \* bytes SPI.transfer returned during the current operation
  bus,         \* pin/bus events of the current operation, in order
  chip,        \* the LS7366R chip: registers and instruction decoder
  hist,        \* history: which calls have completed, encoder drift
  arg,         \* argument of a direct Format(value) call
  spiCfg,      \* SPISettings of the open SPI transaction ("none" when closed)
  idled,       \* a delay has elapsed since pin ss was last deasserted
  other        \* a second channel on the same bus: its object, pin and chip

vars == <<ss, mode, multiplier, range, reverse, pinLevel, pinDir, spiOpen,
          op, pc, retval, ret, rx, bus, chip, hist, arg, spiCfg, idled, other>>

chanVars == <<ss, mode, multiplier, range, reverse>>

------------------------------------------------------------------------------
(* Program constants *)

BITS_32 == 0
BITS_16 == 2
LOW == 0
HIGH == 1
SPI_SS == 53
INT32_MAX == 2147483647
INT32_MIN == (-INT32_MAX) - 1
INT16_MAX == 32767
Pow2(n) == 2 ^ n

\* Highest SCK rate the chip accepts, in Hz (240 ns minimum period).
MaxSclk == 4160000

(* Bounds of the checked instances *)
MaxSmall == 8
MaxRange == 4

NoRet == "none"
Void == "void"

------------------------------------------------------------------------------
(* IEEE-754 single precision, as used by `multiplier * value` *)

RECURSIVE BitLen(_)
BitLen(n) == IF n = 0 THEN 0 ELSE 1 + BitLen(n \div 2)

Abs(n) == IF n < 0 THEN -n ELSE n
Sgn(n) == IF n < 0 THEN -1 ELSE 1

\* n * 2^e rounded to a 24-bit significand, ties to even (|n| < 2^31).
RoundMant(n, e) ==
  LET a == Abs(n)
      k == BitLen(a) - 24
  IN IF k <= 0 THEN [m |-> n, e |-> e]
     ELSE LET q    == a \div Pow2(k)
              r    == a % Pow2(k)
              half == Pow2(k - 1)
              up   == (r > half) \/ (r = half /\ q % 2 = 1)
              q2   == IF up THEN q + 1 ELSE q
          IN IF q2 = Pow2(24)
             THEN [m |-> Sgn(n) * Pow2(23), e |-> e + k + 1]
             ELSE [m |-> Sgn(n) * q2, e |-> e + k]

\* int32_t -> float conversion of the operand `value` of `multiplier * value`.
IntToFloat(v) ==
  IF v = INT32_MIN THEN [m |-> -Pow2(23), e |-> 8] ELSE RoundMant(v, 0)

\* float * float.
FloatMul(a, b) == RoundMant(a.m * b.m, a.e + b.e)

\* Outcomes of converting an out-of-range float to a 32-bit integer, which the
\* language leaves undefined: 0x80000000 (x86 cvttss2si, avr-libc) or the
\* saturated bound (ARM vcvt, compile-time folding).
ConvOutcomes == {"indefinite", "saturate"}

OutOfRange(neg, conv) ==
  IF conv = "saturate" /\ ~neg THEN INT32_MAX ELSE INT32_MIN

\* round(x) converted to int32_t: nearest integer, halves away from zero.
RoundToInt32(x, conv) ==
  IF x.m = 0 THEN 0
  ELSE IF x.e >= 0
  THEN IF x.e <= 30 /\ Abs(x.m) <= INT32_MAX \div Pow2(x.e)
       THEN x.m * Pow2(x.e)
       ELSE IF x.m < 0 /\ x.e <= 30 /\ Abs(x.m) = Pow2(31 - x.e)
            THEN INT32_MIN
            ELSE OutOfRange(x.m < 0, conv)
  ELSE IF -x.e > 25 THEN 0
       ELSE LET d == Pow2(-x.e)
            IN Sgn(x.m) * ((Abs(x.m) + d \div 2) \div d)

------------------------------------------------------------------------------
(* LS7366R::Format and the integer conversions around it *)

\* (a + b) mod r for 0 <= a, b < r, without leaving 32 bits.
AddMod(a, b, r) == IF a >= r - b THEN a - (r - b) ELSE a + b

\* abs(value) % range in uint32_t arithmetic.  abs(INT32_MIN) overflows
\* int32_t; every build leaves the bit pattern 0x80000000, which the
\* conversion to uint32_t reads as 2^31.
AbsMod(value, r) ==
  IF value = INT32_MIN
  THEN AddMod(Pow2(30) % r, Pow2(30) % r, r)
  ELSE (-value) % r

\* uint32_t -> int32_t conversion of the returned expression.
U32ToInt32(u) == IF u <= INT32_MAX THEN u ELSE (u - INT32_MAX - 1) + INT32_MIN

Format(value, conv) ==
  LET scaled == RoundToInt32(FloatMul(multiplier, IntToFloat(value)), conv)
  IN IF range <= 0 THEN scaled
     ELSE IF scaled >= 0
          THEN U32ToInt32(scaled % range)
          ELSE U32ToInt32(range - AbsMod(scaled, range))

\* int -> int16_t and 32-bit wrap-around of the accumulator arithmetic.
Wrap16(x) == ((x + INT16_MAX + 1) % Pow2(16)) - INT16_MAX - 1

\* x << 8 kept to 32 bits (two's complement).
Shl8W32(x) ==
  LET l == x % Pow2(24)
  IN IF l < Pow2(23) THEN l * Pow2(8) ELSE (l - Pow2(24)) * Pow2(8)

\* -x in int32_t; -INT32_MIN overflows and every build leaves INT32_MIN.
Neg32(x) == IF x = INT32_MIN THEN INT32_MIN ELSE -x

------------------------------------------------------------------------------
(* Bodies of the operations: the statements in source order *)

\* const SPISettings spiSettings { 4000000, MSBFIRST, SPI_MODE0 };
SpiClock == 4000000
\* Mutant: the bus is clocked at twice the rate.
spiSettingsFast ==
  [clock |-> 2 * SpiClock, bitOrder |-> "MSBFIRST", dataMode |-> "SPI_MODE0"]

spiSettings == [clock |-> SpiClock, bitOrder |-> "MSBFIRST", dataMode |-> "SPI_MODE0"]
NoSettings == "none"

SpiBegin      == [k |-> "begin", v |-> 0,  acc |-> FALSE]
SpiEnd        == [k |-> "end",   v |-> 0,  acc |-> FALSE]
SsWrite(l)    == [k |-> "ss",    v |-> l,  acc |-> FALSE]
Send(b)       == [k |-> "xfer",  v |-> b,  acc |-> FALSE]
AddByte(b)    == [k |-> "xfer",  v |-> b,  acc |-> TRUE]
Shl           == [k |-> "shl",   v |-> 8,  acc |-> FALSE]
Delay(us)     == [k |-> "delay", v |-> us, acc |-> FALSE]

\* Mutant: both mode registers written in one chip-select cycle.
InitializeOneCycle ==
  << SpiBegin,
     SsWrite(LOW), Send(136), Send(1),
     Delay(1),
     Send(144), Send(mode), SsWrite(HIGH),
     Delay(1),
     SpiEnd >>

\* Mutant: the MDR1 opcode goes out before the line is asserted.
InitializeLateSelect ==
  << SpiBegin,
     SsWrite(LOW), Send(136), Send(1), SsWrite(HIGH),
     Delay(1),
     Send(144), SsWrite(LOW), Send(mode), SsWrite(HIGH),
     Delay(1),
     SpiEnd >>

Initialize ==
  << SpiBegin,
     SsWrite(LOW), Send(136), Send(1), SsWrite(HIGH),
     Delay(1),
     SsWrite(LOW), Send(144), Send(mode), SsWrite(HIGH),
     Delay(1),
     SpiEnd >>

\* Mutant: the read returns without waiting after the deassertion.
Read16WithoutDelay ==
  << SpiBegin,
     SsWrite(LOW), Send(96),
     AddByte(0), Shl, AddByte(0),
     SsWrite(HIGH),
     SpiEnd >>

\* Mutant: the second count byte is clocked in twice.
Read16RepeatsByte ==
  << SpiBegin,
     SsWrite(LOW), Send(96),
     AddByte(0), Shl, AddByte(0), AddByte(0),
     SsWrite(HIGH),
     SpiEnd,
     Delay(1) >>

Read16 ==
  << SpiBegin,
     SsWrite(LOW), Send(96),
     AddByte(0), Shl, AddByte(0),
     SsWrite(HIGH),
     SpiEnd,
     Delay(1) >>

\* Mutant: the shift before the last byte is missing.
Read32MissingShift ==
  << SpiBegin,
     SsWrite(LOW), Send(96),
     AddByte(0), Shl, AddByte(0), Shl, AddByte(0), AddByte(0),
     SsWrite(HIGH),
     SpiEnd,
     Delay(1) >>

\* Mutant: the opcode and the data bytes go out in two chip-select cycles.
Read32TwoCycles ==
  << SpiBegin,
     SsWrite(LOW), Send(96), SsWrite(HIGH),
     SsWrite(LOW),
     AddByte(0), Shl, AddByte(0), Shl, AddByte(0), Shl, AddByte(0),
     SsWrite(HIGH),
     SpiEnd,
     Delay(1) >>

\* Mutant: the line is left asserted when the read returns.
Read32LeavesSelected ==
  << SpiBegin,
     SsWrite(LOW), Send(96),
     AddByte(0), Shl, AddByte(0), Shl, AddByte(0), Shl, AddByte(0),
     SpiEnd,
     Delay(1) >>

Read32 ==
  << SpiBegin,
     SsWrite(LOW), Send(96),
     AddByte(0), Shl, AddByte(0), Shl, AddByte(0), Shl, AddByte(0),
     SsWrite(HIGH),
     SpiEnd,
     Delay(1) >>

\* Mutant: the load cycle is not closed, the line stays asserted.
ZeroLeavesSelected ==
  << SpiBegin,
     SsWrite(LOW), Send(152), Send(0), Send(0), Send(0), Send(0), SsWrite(HIGH),
     Delay(1),
     SsWrite(LOW), Send(224),
     SpiEnd,
     Delay(1) >>

\* Mutant: zeroing also puts MDR1 back to its power-up value.
ZeroResetsMode ==
  << SpiBegin,
     SsWrite(LOW), Send(152), Send(0), Send(0), Send(0), Send(0), SsWrite(HIGH),
     Delay(1),
     SsWrite(LOW), Send(224), SsWrite(HIGH),
     Delay(1),
     SsWrite(LOW), Send(144), Send(0), SsWrite(HIGH),
     SpiEnd,
     Delay(1) >>

\* Mutant: each chip-select cycle gets a bus transaction of its own.
ZeroTwoTransactions ==
  << SpiBegin,
     SsWrite(LOW), Send(152), Send(0), Send(0), Send(0), Send(0), SsWrite(HIGH),
     SpiEnd,
     Delay(1),
     SpiBegin,
     SsWrite(LOW), Send(224), SsWrite(HIGH),
     SpiEnd,
     Delay(1) >>

\* Mutant: DTR is written but never loaded into the counter.
ZeroWithoutLoad ==
  << SpiBegin,
     SsWrite(LOW), Send(152), Send(0), Send(0), Send(0), Send(0), SsWrite(HIGH),
     Delay(1),
     SpiEnd,
     Delay(1) >>

\* Mutant: no idle time between the two chip-select cycles.
ZeroWithoutIdle ==
  << SpiBegin,
     SsWrite(LOW), Send(152), Send(0), Send(0), Send(0), Send(0), SsWrite(HIGH),
     SsWrite(LOW), Send(224), SsWrite(HIGH),
     SpiEnd,
     Delay(1) >>

Zero ==
  << SpiBegin,
     SsWrite(LOW), Send(152), Send(0), Send(0), Send(0), Send(0), SsWrite(HIGH),
     Delay(1),
     SsWrite(LOW), Send(224), SsWrite(HIGH),
     SpiEnd,
     Delay(1) >>

\* Read() dispatches on mode; any other mode runs no bus code.
\* Mutant: any mode other than 16-bit is read as 32-bit.
ReadDefaultsTo32 ==
  IF mode = BITS_16 THEN Read16
  ELSE Read32

\* Mutant: four bytes are clocked in whatever the counter mode.
ReadAlways32 ==
  IF mode = BITS_32 \/ mode = BITS_16 THEN Read32
  ELSE << >>

\* Mutant: a read before Initialize() is refused.
ReadRequiresInit ==
  IF ~hist.inited THEN << >>
  ELSE IF mode = BITS_32 THEN Read32
  ELSE IF mode = BITS_16 THEN Read16
  ELSE << >>

Read ==
  IF mode = BITS_32 THEN Read32
  ELSE IF mode = BITS_16 THEN Read16
  ELSE << >>

Body(o) ==
  CASE o = "Initialize" -> Initialize
    [] o = "Read"       -> Read
    [] o = "Zero"       -> Zero
    [] OTHER            -> << >>

\* Mutant: the 16-bit count is returned zero-extended.
Read16ReturnUnsigned(acc) == (IF reverse THEN -acc ELSE acc) % Pow2(16)

\* `return reverse ? -retval : retval;`
Read32Return(acc) == IF reverse THEN Neg32(acc) ELSE acc
Read16Return(acc) == Wrap16(IF reverse THEN -acc ELSE acc)

ReadReturn(acc, conv) ==
  IF mode = BITS_32 THEN Format(Read32Return(acc), conv)
  ELSE IF mode = BITS_16 THEN Format(Read16Return(acc), conv)
  ELSE 0

\* retval += byte and retval <<= 8 at the accumulator's width.
AccAdd(acc, b) == IF mode = BITS_16 THEN Wrap16(acc + b) ELSE acc + b
AccShl(acc)    == IF mode = BITS_16 THEN Wrap16(acc * Pow2(8)) ELSE Shl8W32(acc)

------------------------------------------------------------------------------
(* The LS7366R chip on the other end of the bus (datasheet behaviour) *)

ZeroBytes == <<0, 0, 0, 0>>
NoInstr == -1

\* Bytes of the counter in use: MDR1 bits 0-1 select 4, 3, 2 or 1.
ChipWidth(c) == 4 - (c.mdr1 % 4)

\* Position in a 4-byte register of the n-th (0-based) byte on the wire.
RegIndex(c, n) == 4 - ChipWidth(c) + n + 1

\* Chip-select edges delimit an instruction cycle.  OTR is reloaded by every
\* RD CNTR before it is shifted out, so its stale content is dropped.
ChipSelect(c)   == [c EXCEPT !.ir = NoInstr, !.n = 0]
ChipDeselect(c) == [c EXCEPT !.ir = NoInstr, !.n = 0, !.otr = ZeroBytes]

\* One byte clocked while selected: the new chip state and the MISO byte.
\* Bytes beyond the register's width are ignored and no longer counted.
ChipByte(c, b) ==
  IF c.ir = NoInstr
  THEN [chip |-> CASE b = 96  -> [c EXCEPT !.ir = b, !.otr = c.cntr]
                   [] b = 224 -> [c EXCEPT !.ir = b, !.cntr = c.dtr]
                   [] OTHER   -> [c EXCEPT !.ir = b],
        miso |-> 0]
  ELSE LET inReg == c.n < ChipWidth(c)
       IN [chip |-> CASE c.ir = 136 /\ c.n = 0 -> [c EXCEPT !.mdr0 = b, !.n = 1]
                      [] c.ir = 144 /\ c.n = 0 -> [c EXCEPT !.mdr1 = b, !.n = 1]
                      [] c.ir = 152 /\ inReg   ->
                           [c EXCEPT !.dtr[RegIndex(c, c.n)] = b, !.n = c.n + 1]
                      [] OTHER                 ->
                           [c EXCEPT !.n = IF inReg THEN c.n + 1 ELSE c.n],
           miso |-> IF c.ir = 96 /\ inReg THEN c.otr[RegIndex(c, c.n)] ELSE 0]

------------------------------------------------------------------------------
(* Checked instances: channel configurations and counter contents *)

FOne     == [m |-> 1, e |-> 0]
FHalf    == [m |-> 1, e |-> -1]
FThreeHalves == [m |-> 3, e |-> -1]
FMinusOne == [m |-> -1, e |-> 0]
FTwo     == [m |-> 1, e |-> 1]
FZero    == [m |-> 0, e |-> 0]

ModeVals == {BITS_32, BITS_16, 1}
ScaleVals == { <<FOne, 0>>, <<FOne, 200>>, <<FHalf, 0>> }

ByteVals == {0, 1, 128, 255}
CountBytes ==
  (ByteVals \X ByteVals \X ByteVals \X ByteVals)
  \cup { <<0, 0, 1, 44>>,        \* 300
         <<128, 0, 0, 0>>,       \* INT32_MIN; low half 0
         <<0, 0, 128, 0>>,       \* low half INT16_MIN
         <<127, 255, 255, 255>>, \* INT32_MAX
         <<1, 0, 0, 3>>,         \* 2^24 + 3
         <<255, 255, 255, 56>>,  \* -200
         <<255, 255, 255, 131>>, \* -125
         <<0, 0, 0, 125>>,
         <<0, 0, 0, 7>> }
DtrVals == { ZeroBytes, <<255, 255, 255, 255>> }

------------------------------------------------------------------------------
(* Initial state: the channel has been constructed, the chip powered up *)

\* Power-up state of a chip whose counter holds c and whose DTR holds d.
PoweredChip(c, d) ==
  [mdr0 |-> 0, mdr1 |-> 0, dtr |-> d, cntr |-> c,
   otr |-> ZeroBytes, ir |-> NoInstr, n |-> 0]

\* A second channel object (pin SPI_SS - 1) with its own chip, at rest.
OtherChannel(md, c) ==
  [ss |-> SPI_SS - 1, mode |-> md, multiplier |-> FOne, range |-> 0,
   reverse |-> FALSE, pinLevel |-> HIGH, pinDir |-> "OUTPUT",
   op |-> "none", pc |-> 0, retval |-> 0, ret |-> NoRet,
   rx |-> << >>, bus |-> << >>, chip |-> PoweredChip(c, ZeroBytes),
   hist |-> [inited |-> FALSE, zeroed |-> FALSE], idled |-> TRUE]

\* With a single channel the second one is never used.
NoOther == OtherChannel(BITS_32, ZeroBytes)

Constructed(md, mult, rng, rev) ==
  /\ ss = SPI_SS /\ mode = md /\ multiplier = mult /\ range = rng
  /\ reverse = rev
  /\ pinLevel = HIGH /\ pinDir = "OUTPUT"

Init ==
  /\ \E md \in ModeVals, sc \in ScaleVals, rev \in BOOLEAN :
        Constructed(md, sc[1], sc[2], rev)
  /\ spiOpen = 0
  /\ op = "none" /\ pc = 0 /\ retval = 0 /\ ret = NoRet
  /\ rx = << >> /\ bus = << >>
  /\ \E c \in CountBytes, d \in DtrVals :
        chip = [mdr0 |-> 0, mdr1 |-> 0, dtr |-> d, cntr |-> c,
                otr |-> ZeroBytes, ir |-> NoInstr, n |-> 0]
  /\ hist = [inited |-> FALSE, zeroed |-> FALSE]
  /\ arg = 0
  /\ spiCfg = NoSettings /\ idled = TRUE /\ other = NoOther

------------------------------------------------------------------------------
(* Calls *)

Call(o) ==
  /\ op = "none" /\ pc = 0
  /\ op' = o /\ pc' = 1
  /\ retval' = 0 /\ ret' = NoRet /\ rx' = << >> /\ bus' = << >>
  /\ UNCHANGED <<spiCfg, idled, other, chanVars, pinLevel, pinDir, spiOpen, chip, hist, arg>>

CallInitialize == Call("Initialize")
CallRead       == Call("Read")
CallZero       == Call("Zero")

(* Statements *)

AtStmt(kind) ==
  /\ op \in {"Initialize", "Read", "Zero"}
  /\ pc >= 1 /\ pc <= Len(Body(op))
  /\ Body(op)[pc].k = kind

Stmt == Body(op)[pc]
Event(s) == [k |-> s.k, v |-> s.v]

\* Mutant: SPI.beginTransaction waits until no transaction is open.
BeginTransactionLocked ==
  /\ AtStmt("begin")
  /\ spiOpen = 0
  /\ spiOpen' = spiOpen + 1
  /\ spiCfg' = spiSettings
  /\ bus' = Append(bus, Event(Stmt))
  /\ pc' = pc + 1
  /\ UNCHANGED <<idled, other, chanVars, pinLevel, pinDir, op, retval, ret, rx,
                 chip, hist, arg>>

\* SPI.beginTransaction(spiSettings)
BeginTransaction ==
  /\ AtStmt("begin")
  /\ spiOpen' = spiOpen + 1
  /\ spiCfg' = spiSettings
  /\ bus' = Append(bus, Event(Stmt))
  /\ pc' = pc + 1
  /\ UNCHANGED <<idled, other, chanVars, pinLevel, pinDir, op, retval, ret, rx, chip, hist, arg>>

\* SPI.endTransaction()
EndTransaction ==
  /\ AtStmt("end")
  /\ spiOpen' = spiOpen - 1
  /\ spiCfg' = NoSettings
  /\ bus' = Append(bus, Event(Stmt))
  /\ pc' = pc + 1
  /\ UNCHANGED <<idled, other, chanVars, pinLevel, pinDir, op, retval, ret, rx, chip, hist, arg>>

\* digitalWrite(ss, level); the chip sees the edge on its SS/ input.
DigitalWrite ==
  /\ AtStmt("ss")
  /\ pinLevel' = Stmt.v
  /\ chip' = IF pinLevel = HIGH /\ Stmt.v = LOW THEN ChipSelect(chip)
             ELSE IF pinLevel = LOW /\ Stmt.v = HIGH THEN ChipDeselect(chip)
             ELSE chip
  /\ idled' = IF pinLevel = LOW /\ Stmt.v = HIGH THEN FALSE ELSE idled
  /\ bus' = Append(bus, Event(Stmt))
  /\ pc' = pc + 1
  /\ UNCHANGED <<spiCfg, other, chanVars, pinDir, spiOpen, op, retval, ret, rx, hist, arg>>

\* SPI.transfer(b), and `retval += SPI.transfer(b)`
Transfer ==
  /\ AtStmt("xfer")
  /\ LET r == IF pinLevel = LOW THEN ChipByte(chip, Stmt.v)
              ELSE [chip |-> chip, miso |-> 0]
     IN /\ chip' = r.chip
        /\ rx' = Append(rx, r.miso)
        /\ retval' = IF Stmt.acc THEN AccAdd(retval, r.miso) ELSE retval
  /\ other' = IF other.pinLevel = LOW
              THEN [other EXCEPT !.chip = ChipByte(other.chip, Stmt.v).chip]
              ELSE other
  /\ bus' = Append(bus, Event(Stmt))
  /\ pc' = pc + 1
  /\ UNCHANGED <<spiCfg, idled, chanVars, pinLevel, pinDir, spiOpen, op, ret, hist, arg>>

\* retval <<= 8
ShiftLeft8 ==
  /\ AtStmt("shl")
  /\ retval' = AccShl(retval)
  /\ pc' = pc + 1
  /\ UNCHANGED <<spiCfg, idled, other, chanVars, pinLevel, pinDir, spiOpen, op, ret, rx, bus, chip, hist, arg>>

\* delayMicroseconds(us)
DelayMicroseconds ==
  /\ AtStmt("delay")
  /\ idled' = IF pinLevel = HIGH /\ Stmt.v >= 1 THEN TRUE ELSE idled
  /\ bus' = Append(bus, Event(Stmt))
  /\ pc' = pc + 1
  /\ UNCHANGED <<spiCfg, other, chanVars, pinLevel, pinDir, spiOpen, op, retval, ret, rx, chip, hist, arg>>

\* Mutant: Zero() also clears the wrap range.
ReturnClearsRange ==
  /\ op \in {"Initialize", "Read", "Zero"}
  /\ pc = Len(Body(op)) + 1
  /\ \E conv \in ConvOutcomes :
        ret' = IF op = "Read" THEN ReadReturn(retval, conv) ELSE Void
  /\ hist' = CASE op = "Initialize" -> [inited |-> TRUE, zeroed |-> FALSE]
               [] op = "Zero"       -> [hist EXCEPT !.zeroed = TRUE]
               [] OTHER             -> hist
  /\ pc' = 0
  /\ range' = IF op = "Zero" THEN 0 ELSE range
  /\ UNCHANGED <<spiCfg, idled, other, ss, mode, multiplier, reverse,
                 pinLevel, pinDir, spiOpen, op, retval, rx, bus, chip, arg>>

\* The operation returns to its caller.
Return ==
  /\ op \in {"Initialize", "Read", "Zero"}
  /\ pc = Len(Body(op)) + 1
  /\ \E conv \in ConvOutcomes :
        ret' = IF op = "Read" THEN ReadReturn(retval, conv) ELSE Void
  /\ hist' = CASE op = "Initialize" -> [inited |-> TRUE, zeroed |-> FALSE]
               [] op = "Zero"       -> [hist EXCEPT !.zeroed = TRUE]
               [] OTHER             -> hist
  /\ pc' = 0
  /\ UNCHANGED <<spiCfg, idled, other, chanVars, pinLevel, pinDir, spiOpen, op, retval, rx, bus, chip, arg>>

\* The caller takes the result and goes on.
Continue ==
  /\ op # "none" /\ pc = 0
  /\ op' = "none"
  /\ retval' = 0 /\ ret' = NoRet /\ rx' = << >> /\ bus' = << >>
  /\ UNCHANGED <<spiCfg, idled, other, chanVars, pinLevel, pinDir, spiOpen, pc, chip, hist, arg>>

\* The encoder turns: the chip's counter takes another value.
EncoderMove ==
  /\ op = "none"
  /\ \E c \in CountBytes \ {chip.cntr} : chip' = [chip EXCEPT !.cntr = c]
  /\ hist' = [hist EXCEPT !.zeroed = FALSE]
  /\ UNCHANGED <<spiCfg, idled, other, chanVars, pinLevel, pinDir, spiOpen, op, pc, retval, ret, rx, bus, arg>>

Next ==
  \/ CallInitialize \/ CallRead \/ CallZero
  \/ BeginTransaction \/ EndTransaction \/ DigitalWrite \/ Transfer
  \/ ShiftLeft8 \/ DelayMicroseconds
  \/ Return \/ Continue
  \/ EncoderMove

Spec == Init /\ [][Next]_vars

------------------------------------------------------------------------------
(* Two channels on distinct chip-select pins share the bus; one caller *)
(* invokes their operations one at a time.                            *)

\* The object, pin and chip the variables currently stand for.
ThisChannel ==
  [ss |-> ss, mode |-> mode, multiplier |-> multiplier, range |-> range,
   reverse |-> reverse, pinLevel |-> pinLevel, pinDir |-> pinDir,
   op |-> op, pc |-> pc, retval |-> retval, ret |-> ret,
   rx |-> rx, bus |-> bus, chip |-> chip, hist |-> hist, idled |-> idled]

\* Between two calls the caller turns to the other channel object.
SelectOther ==
  /\ op = "none" /\ pc = 0
  /\ other' = ThisChannel
  /\ ss' = other.ss /\ mode' = other.mode /\ multiplier' = other.multiplier
  /\ range' = other.range /\ reverse' = other.reverse
  /\ pinLevel' = other.pinLevel /\ pinDir' = other.pinDir
  /\ op' = other.op /\ pc' = other.pc
  /\ retval' = other.retval /\ ret' = other.ret
  /\ rx' = other.rx /\ bus' = other.bus
  /\ chip' = other.chip /\ hist' = other.hist /\ idled' = other.idled
  /\ UNCHANGED <<spiOpen, spiCfg, arg>>

TwoModes == {BITS_32, BITS_16}
TwoCounts == { <<0, 0, 1, 44>>, <<255, 255, 255, 56>> }

InitTwo ==
  /\ \E md \in TwoModes : Constructed(md, FOne, 0, FALSE)
  /\ spiOpen = 0
  /\ op = "none" /\ pc = 0 /\ retval = 0 /\ ret = NoRet
  /\ rx = << >> /\ bus = << >>
  /\ \E c \in TwoCounts : chip = PoweredChip(c, ZeroBytes)
  /\ hist = [inited |-> FALSE, zeroed |-> FALSE]
  /\ arg = 0
  /\ spiCfg = NoSettings /\ idled = TRUE
  /\ \E md \in TwoModes, c \in TwoCounts : other = OtherChannel(md, c)

NextTwo ==
  \/ CallInitialize \/ CallRead \/ CallZero
  \/ BeginTransaction \/ EndTransaction \/ DigitalWrite \/ Transfer
  \/ ShiftLeft8 \/ DelayMicroseconds
  \/ Return \/ Continue
  \/ SelectOther

SpecTwo == InitTwo /\ [][NextTwo]_vars

------------------------------------------------------------------------------
(* Two tasks, one per channel, read their counters with no lock around the *)
(* calls: the processor may leave one task for the other after any         *)
(* statement.                                                              *)

\* The processor turns to the other task, wherever this one stands.
TaskSwitch ==
  /\ other' = ThisChannel
  /\ ss' = other.ss /\ mode' = other.mode /\ multiplier' = other.multiplier
  /\ range' = other.range /\ reverse' = other.reverse
  /\ pinLevel' = other.pinLevel /\ pinDir' = other.pinDir
  /\ op' = other.op /\ pc' = other.pc
  /\ retval' = other.retval /\ ret' = other.ret
  /\ rx' = other.rx /\ bus' = other.bus
  /\ chip' = other.chip /\ hist' = other.hist /\ idled' = other.idled
  /\ UNCHANGED <<spiOpen, spiCfg, arg>>

InitTasks ==
  /\ Constructed(BITS_32, FOne, 0, FALSE)
  /\ spiOpen = 0
  /\ op = "none" /\ pc = 0 /\ retval = 0 /\ ret = NoRet
  /\ rx = << >> /\ bus = << >>
  /\ chip = PoweredChip(<<0, 0, 1, 44>>, ZeroBytes)
  /\ hist = [inited |-> FALSE, zeroed |-> FALSE]
  /\ arg = 0
  /\ spiCfg = NoSettings /\ idled = TRUE
  /\ other = OtherChannel(BITS_16, <<255, 255, 255, 56>>)

NextTasks ==
  \/ CallRead
  \/ BeginTransaction \/ EndTransaction \/ DigitalWrite \/ Transfer
  \/ ShiftLeft8 \/ DelayMicroseconds
  \/ Return \/ Continue
  \/ TaskSwitch

SpecTasks == InitTasks /\ [][NextTasks]_vars

------------------------------------------------------------------------------
(* Construction as an operation: the constructor's body runs on a pin that *)
(* is still an input, as it is after reset.                                *)

PinMode(d) == [k |-> "mode", v |-> d, acc |-> FALSE]

\* Mutant: the pin is made an output before the high level is written.
ConstructorModeFirst == << PinMode("OUTPUT"), SsWrite(HIGH) >>

\* digitalWrite(ss, HIGH); pinMode(ss, OUTPUT);
Constructor == << SsWrite(HIGH), PinMode("OUTPUT") >>

\* One statement of the constructor's body.
Construct ==
  /\ op = "LS7366R" /\ pc >= 1 /\ pc <= Len(Constructor)
  /\ LET s == Constructor[pc]
     IN /\ pinLevel' = IF s.k = "ss" THEN s.v ELSE pinLevel
        /\ pinDir' = IF s.k = "mode" THEN s.v ELSE pinDir
        /\ bus' = Append(bus, Event(s))
  /\ pc' = IF pc = Len(Constructor) THEN 0 ELSE pc + 1
  /\ UNCHANGED <<spiCfg, idled, other, chanVars, spiOpen, op, retval, ret, rx,
                 chip, hist, arg>>

\* The members are initialized, the body has not run yet.
InitConstruct ==
  /\ \E md \in ModeVals, sc \in ScaleVals, rev \in BOOLEAN :
        /\ ss = SPI_SS /\ mode = md /\ multiplier = sc[1] /\ range = sc[2]
        /\ reverse = rev
  /\ pinLevel \in {LOW, HIGH} /\ pinDir = "INPUT"
  /\ spiOpen = 0
  /\ op = "LS7366R" /\ pc = 1 /\ retval = 0 /\ ret = NoRet
  /\ rx = << >> /\ bus = << >>
  /\ \E c \in TwoCounts : chip = PoweredChip(c, ZeroBytes)
  /\ hist = [inited |-> FALSE, zeroed |-> FALSE]
  /\ arg = 0
  /\ spiCfg = NoSettings /\ idled = TRUE /\ other = NoOther

NextConstruct ==
  \/ Construct
  \/ CallInitialize \/ CallRead \/ CallZero
  \/ BeginTransaction \/ EndTransaction \/ DigitalWrite \/ Transfer
  \/ ShiftLeft8 \/ DelayMicroseconds
  \/ Return \/ Continue

SpecConstruct == InitConstruct /\ [][NextConstruct]_vars

------------------------------------------------------------------------------
(* The test harness (main.cpp): LeftEncoder is constructed with the pin     *)
(* alone, setup() initializes it, loop() reads it every 250 ms.             *)

\* setup(): the pins are configured (SPI_SS is an output already), the serial
\* port is opened, and LeftEncoder.Initialize() is called.  setup() runs
\* once: it is behind the harness as soon as Initialize() has returned.
SetupInitialize ==
  /\ ~hist.inited /\ pinDir = "OUTPUT"
  /\ Call("Initialize")

\* Mutant: loop() initializes the channel again before some reads.
LoopReinitializes ==
  /\ hist.inited
  /\ (Call("Read") \/ Call("Initialize"))

\* loop(): Serial.println(LeftEncoder.Read()); delay(250);
LoopRead ==
  /\ hist.inited
  /\ Call("Read")

InitHarness ==
  /\ ss = SPI_SS /\ mode = BITS_32 /\ multiplier = FOne /\ range = 0
  /\ reverse = FALSE
  /\ pinLevel \in {LOW, HIGH} /\ pinDir = "INPUT"
  /\ spiOpen = 0
  /\ op = "LS7366R" /\ pc = 1 /\ retval = 0 /\ ret = NoRet
  /\ rx = << >> /\ bus = << >>
  /\ \E c \in CountBytes : chip = PoweredChip(c, ZeroBytes)
  /\ hist = [inited |-> FALSE, zeroed |-> FALSE]
  /\ arg = 0
  /\ spiCfg = NoSettings /\ idled = TRUE /\ other = NoOther

NextHarness ==
  \/ Construct
  \/ SetupInitialize \/ LoopRead
  \/ BeginTransaction \/ EndTransaction \/ DigitalWrite \/ Transfer
  \/ ShiftLeft8 \/ DelayMicroseconds
  \/ Return \/ Continue
  \/ EncoderMove

SpecHarness == InitHarness /\ [][NextHarness]_vars

------------------------------------------------------------------------------
(* The statements of a started operation, up to its return *)

Step ==
  \/ BeginTransaction \/ EndTransaction \/ DigitalWrite \/ Transfer
  \/ ShiftLeft8 \/ DelayMicroseconds
  \/ Return

------------------------------------------------------------------------------
(* Format(value) called directly on a constructed channel *)

MultVals == {FOne, FHalf, FThreeHalves, FMinusOne, FTwo, FZero}
RangeVals == (0 .. MaxRange) \cup {7, 200, 1000, Pow2(30) + 1, INT32_MAX}
ArgVals ==
  ((-MaxSmall) .. MaxSmall)
  \cup { 125, -125, 200, -200, -400, 300, -1000,
         8388609, 16777215, 16777216, 16777217, -16777217, 16777219,
         -16777218, -16777221, 33554433, -33554433,
         Pow2(30), -Pow2(30), 2147483583, 2147483584, INT32_MAX,
         INT32_MIN + 1, INT32_MIN }

InitFormat ==
  /\ \E mult \in MultVals, rng \in RangeVals :
        Constructed(BITS_32, mult, rng, FALSE)
  /\ spiOpen = 0
  /\ op = "none" /\ pc = 0 /\ retval = 0 /\ ret = NoRet
  /\ rx = << >> /\ bus = << >>
  /\ chip = [mdr0 |-> 0, mdr1 |-> 0, dtr |-> ZeroBytes, cntr |-> ZeroBytes,
             otr |-> ZeroBytes, ir |-> NoInstr, n |-> 0]
  /\ hist = [inited |-> FALSE, zeroed |-> FALSE]
  /\ arg \in ArgVals
  /\ spiCfg = NoSettings /\ idled = TRUE /\ other = NoOther

FormatCall ==
  /\ op = "none" /\ pc = 0 /\ ret = NoRet
  /\ op' = "Format"
  /\ \E conv \in ConvOutcomes : ret' = Format(arg, conv)
  /\ UNCHANGED <<spiCfg, idled, other, chanVars, pinLevel, pinDir, spiOpen, pc, retval, rx, bus,
                 chip, hist, arg>>

NextFormat == FormatCall

SpecFormat == InitFormat /\ [][NextFormat]_vars

------------------------------------------------------------------------------
(* Properties of Format, checked under SpecFormat *)

Formatted == op = "Format"

\* |v| mod r for any int32_t v, from the mathematical v mod r.
MathAbsMod(v, r) == IF v >= 0 THEN v % r ELSE (r - (v % r)) % r

\* Nearest integer to v / 2, halves away from zero.
HalfRounded(v) == IF v >= 0 THEN (v \div 2) + (v % 2) ELSE v \div 2

\* C1: with scaleFactor = 1 and wrapRange R > 0, Format(v) lies in [0, R)
\* for every 32-bit v.
C1_FormatInRange ==
  (Formatted /\ multiplier = FOne /\ range > 0) => (0 <= ret /\ ret < range)

\* C2: with scaleFactor = 1, Format(v) = R for every negative v that is an
\* exact multiple of R > 0 (Format(-200) = 200 for R = 200).
C2_NegativeMultipleGivesRange ==
  (Formatted /\ multiplier = FOne /\ range > 0 /\ arg < 0 /\ arg % range = 0)
    => ret = range

\* C3: with scaleFactor = 1 and R > 0, Format(v) = v mod R for v >= 0 and
\* R - (|v| mod R) for v < 0.
C3_SignCorrectModulus ==
  (Formatted /\ multiplier = FOne /\ range > 0)
    => ret = IF arg >= 0 THEN arg % range ELSE range - MathAbsMod(arg, range)

\* C4: with wrapRange = 0, Format(v) = round(scaleFactor * v) for every v,
\* negative results included, and Format(0) = 0 for any scaleFactor.
C4_Passthrough ==
  (Formatted /\ range = 0)
    => /\ multiplier = FOne => ret = arg
       /\ multiplier = FHalf => ret = HalfRounded(arg)
       /\ multiplier = FZero => ret = 0
       /\ (multiplier = FMinusOne /\ arg # INT32_MIN) => ret = -arg
       /\ arg = 0 => ret = 0

\* C18: with scale factor 0.5 and wrap range 0, Format(7) = 4 and, the exact
\* half being rounded away from zero, Format(v) = (v + 1) / 2 for every odd
\* positive v.
C18_HalfScale ==
  (Formatted /\ multiplier = FHalf /\ range = 0 /\ arg > 0 /\ arg % 2 = 1)
    => /\ ret = (arg \div 2) + 1
       /\ arg = 7 => ret = 4

\* C28: with scaleFactor = 1, for every wrap range R with 1 <= R <= 2^31 - 1
\* and every 32-bit signed v, -2^31 included, that is not a negative multiple
\* of R, Format(v) is the mathematical v modulo R: in [0, R) and congruent
\* to v modulo R.
C28_MathematicalModulus ==
  (Formatted /\ multiplier = FOne /\ range >= 1 /\ range <= INT32_MAX
     /\ ~(arg < 0 /\ arg % range = 0))
    => /\ 0 <= ret /\ ret < range
       /\ ret % range = arg % range

------------------------------------------------------------------------------
(* Properties of Initialize, Read and Zero, checked under Spec *)

Returned(o) == op = o /\ pc = 0

\* Two's-complement value of bytes received MSB first.
Signed8(b) == IF b >= 128 THEN b - 256 ELSE b
TwosComp32(b0, b1, b2, b3) ==
  Signed8(b0) * Pow2(24) + b1 * Pow2(16) + b2 * Pow2(8) + b3
TwosComp16(b0, b1) == Signed8(b0) * Pow2(8) + b1

\* The raw count the chip sent in this Read(), at the channel's width.
RawCount ==
  IF mode = BITS_32 THEN TwosComp32(rx[2], rx[3], rx[4], rx[5])
  ELSE TwosComp16(rx[2], rx[3])

\* Bytes written to the bus during the current operation, in order.
TxBytes == [i \in 1 .. Cardinality({j \in 1 .. Len(bus) : bus[j].k = "xfer"}) |->
              LET idx == CHOOSE j \in 1 .. Len(bus) :
                           /\ bus[j].k = "xfer"
                           /\ Cardinality({h \in 1 .. j : bus[h].k = "xfer"}) = i
              IN bus[idx].v]

Ev(kind, val) == [k |-> kind, v |-> val]

\* C5: after Initialize() then Zero(), with no encoder movement since, Read()
\* returns Format(0); on the default 32-bit channel that is 0.
C5_ZeroThenRead ==
  (Returned("Read") /\ hist.inited /\ hist.zeroed)
    => /\ \A conv \in ConvOutcomes : ret = Format(0, conv)
       /\ (mode = BITS_32 /\ multiplier = FOne /\ range = 0 /\ ~reverse)
            => ret = 0

C5_Witness ==
  /\ Returned("Read") /\ hist.inited /\ hist.zeroed
  /\ mode = BITS_32 /\ multiplier = FOne /\ range = 0 /\ ~reverse
  /\ Len(rx) = 5 /\ ret = 0

\* C6: for every raw count N at the channel's width, Read() returns Format(N)
\* on a non-inverted channel and Format(-N) on an inverted one.
C6_DirectionInversion ==
  (Returned("Read") /\ mode \in {BITS_32, BITS_16}
     /\ ~(mode = BITS_32 /\ RawCount = INT32_MIN))
    => \E conv \in ConvOutcomes :
         ret = Format(IF reverse THEN -RawCount ELSE RawCount, conv)

\* C7: a 32-bit read sends 0x60 and assembles the four bytes that follow,
\* MSB first, into their 32-bit two's-complement value.
C7_Assemble32 ==
  (Returned("Read") /\ mode = BITS_32)
    => /\ TxBytes = <<96, 0, 0, 0, 0>>
       /\ Len(rx) = 5
       /\ retval = TwosComp32(rx[2], rx[3], rx[4], rx[5])

C7_Witness ==
  /\ Returned("Read") /\ mode = BITS_32
  /\ rx = <<0, 0, 0, 1, 44>> /\ retval = 300

\* C8: a 16-bit read assembles the two bytes after 0x60 into their 16-bit
\* two's-complement value, which is passed sign-extended to Format.
C8_Assemble16 ==
  (Returned("Read") /\ mode = BITS_16)
    => /\ TxBytes = <<96, 0, 0>>
       /\ Len(rx) = 3
       /\ retval = TwosComp16(rx[2], rx[3])
       /\ ~reverse => \E conv \in ConvOutcomes :
                         ret = Format(TwosComp16(rx[2], rx[3]), conv)
       /\ (~reverse /\ multiplier = FOne /\ range = 0 /\ rx = <<0, 255, 255>>)
            => ret = -1

C8_Witness ==
  /\ Returned("Read") /\ mode = BITS_16 /\ ~reverse
  /\ multiplier = FOne /\ range = 0
  /\ rx = <<0, 255, 255>> /\ ret = -1

\* C9: Initialize() sends 0x88, 0x01, 0x90, mode: each register write in its
\* own chip-select cycle followed by a 1 us delay, MDR0 before MDR1.
C9_InitializeSequence ==
  Returned("Initialize")
    => /\ bus = << Ev("begin", 0),
                   Ev("ss", LOW), Ev("xfer", 136), Ev("xfer", 1), Ev("ss", HIGH),
                   Ev("delay", 1),
                   Ev("ss", LOW), Ev("xfer", 144), Ev("xfer", mode), Ev("ss", HIGH),
                   Ev("delay", 1),
                   Ev("end", 0) >>
       /\ TxBytes = <<136, 1, 144, mode>>
       /\ chip.mdr0 = 1 /\ chip.mdr1 = mode

C9_Witness ==
  /\ Returned("Initialize") /\ mode = BITS_16
  /\ TxBytes = <<136, 1, 144, 2>> /\ chip.mdr1 = 2

\* C10: Zero() sends 0x98 and four 0x00 in one chip-select cycle, waits 1 us
\* deselected, sends 0xE0 alone in a second cycle and waits 1 us, whatever
\* the channel's configuration.
C10_ZeroSequence ==
  Returned("Zero")
    => /\ bus = << Ev("begin", 0),
                   Ev("ss", LOW), Ev("xfer", 152), Ev("xfer", 0), Ev("xfer", 0),
                   Ev("xfer", 0), Ev("xfer", 0), Ev("ss", HIGH),
                   Ev("delay", 1),
                   Ev("ss", LOW), Ev("xfer", 224), Ev("ss", HIGH),
                   Ev("end", 0),
                   Ev("delay", 1) >>
       /\ pinLevel = HIGH

C10_Witness ==
  /\ Returned("Zero") /\ mode = BITS_16 /\ reverse /\ range = 200
  /\ TxBytes = <<152, 0, 0, 0, 0, 224>>
  /\ chip.cntr[3] = 0 /\ chip.cntr[4] = 0

\* The events of a whole Read() that clocks in n data bytes.
ReadCycle(n) ==
  << Ev("begin", 0), Ev("ss", LOW), Ev("xfer", 96) >>
    \o [i \in 1 .. n |-> Ev("xfer", 0)]
    \o << Ev("ss", HIGH), Ev("end", 0), Ev("delay", 1) >>

\* C11: Read() on a 32-bit or 16-bit channel is one chip-select cycle: the
\* line is asserted once, 0x60 is the first byte, exactly four (32-bit) or two
\* (16-bit) bytes are clocked in, the line is deasserted, and a delay of at
\* least 1 us follows before Read() returns.
C11_ReadSingleCycle ==
  (Returned("Read") /\ mode \in {BITS_32, BITS_16})
    => /\ bus = ReadCycle(IF mode = BITS_32 THEN 4 ELSE 2)
       /\ Cardinality({i \in DOMAIN bus : bus[i] = Ev("ss", LOW)}) = 1
       /\ Len(rx) = (IF mode = BITS_32 THEN 5 ELSE 3)
       /\ pinLevel = HIGH /\ idled

C11_Witness ==
  /\ Returned("Read") /\ mode = BITS_32
  /\ bus = ReadCycle(4) /\ Len(rx) = 5 /\ rx[5] = 255

\* No operation is executing: before the first call and between calls.
Idle == pc = 0 /\ op \in {"none", "Initialize", "Read", "Zero"}

\* C12: after construction and any sequence of Initialize(), Read() and
\* Zero(), whenever no operation is executing the chip-select line is
\* deasserted: the pin is an output driven high.
C12_IdleDeasserted ==
  Idle => (pinLevel = HIGH /\ pinDir = "OUTPUT")

C12_Witness ==
  /\ op = "none" /\ pc = 0 /\ hist.inited /\ hist.zeroed
  /\ chip.mdr1 = BITS_16 /\ pinLevel = HIGH

\* The next statement asserts the chip-select line.
AboutToAssert == AtStmt("ss") /\ Stmt.v = LOW /\ pinLevel = HIGH

\* C13: between the deassertion that ends one chip-select cycle and the next
\* assertion of the line, in the same or in a following operation, a delay of
\* at least 1 us has elapsed with the line deasserted.
C13_DelayBetweenCycles ==
  AboutToAssert => idled

C13_Witness ==
  /\ AboutToAssert /\ idled /\ hist.inited
  /\ op = "Zero" /\ \E i \in DOMAIN bus : bus[i] = Ev("ss", HIGH)

\* The count the received bytes of a completed read stand for.
CountReceived ==
  IF mode = BITS_32 THEN TwosComp32(rx[2], rx[3], rx[4], rx[5])
  ELSE TwosComp16(rx[2], rx[3])

\* C15: the channel keeps no initialized state.  Read() and Zero() called
\* before Initialize() complete without error and perform the same bus
\* sequence as after Initialize(), and the value Read() returns is determined
\* by the received bytes alone.
C15_NoInitializedState ==
  \A inited \in BOOLEAN :
    hist.inited = inited =>
      /\ (Returned("Read") /\ mode \in {BITS_32, BITS_16})
            => /\ bus = ReadCycle(IF mode = BITS_32 THEN 4 ELSE 2)
               /\ \E conv \in ConvOutcomes :
                     ret = Format(IF mode = BITS_32
                                  THEN Read32Return(CountReceived)
                                  ELSE Read16Return(CountReceived), conv)
      /\ Returned("Zero")
            => /\ TxBytes = <<152, 0, 0, 0, 0, 224>>
               /\ Len(bus) = Len(Zero) /\ ret = Void

C15_Witness ==
  /\ Returned("Read") /\ ~hist.inited /\ mode = BITS_32 /\ range = 200
  /\ bus = ReadCycle(4) /\ rx = <<0, 0, 0, 1, 44>> /\ ret = 100

\* C16: the chip-select pin, counter width, scale factor, wrap range and
\* direction-inverted flag are fixed at construction: no step of Initialize(),
\* Read() or Zero(), and nothing between calls, changes any of them.
C16_FieldsFixed ==
  [][chanVars' = chanVars]_vars

C16_Witness ==
  /\ Returned("Read") /\ hist.inited /\ hist.zeroed
  /\ ss = SPI_SS /\ mode = BITS_16 /\ multiplier = FOne
  /\ range = 200 /\ reverse

\* C19: a channel constructed with the chip-select argument alone is 32-bit
\* with scale factor 1.0, wrap range 0 and no inversion, so Read() returns
\* exactly the signed 32-bit count assembled from the four received bytes.
C19_DefaultChannel ==
  (Returned("Read") /\ mode = BITS_32 /\ multiplier = FOne /\ range = 0
     /\ ~reverse)
    => ret = TwosComp32(rx[2], rx[3], rx[4], rx[5])

\* C20: every bus transaction opened by Initialize(), Read() or Zero() uses
\* the same settings: clock 4,000,000 Hz, which is not above the chip's
\* 4.16 MHz limit, most-significant bit first, SPI mode 0.
C20_FixedSettings ==
  spiOpen > 0
    => /\ spiCfg = [clock |-> 4000000, bitOrder |-> "MSBFIRST",
                    dataMode |-> "SPI_MODE0"]
       /\ spiCfg.clock <= MaxSclk

C20_Witness ==
  /\ spiOpen = 1 /\ op = "Zero" /\ AtStmt("xfer") /\ hist.inited
  /\ spiCfg.clock = 4000000 /\ spiCfg.bitOrder = "MSBFIRST"

\* The events of kind k recorded for the current operation.
Events(k) == {i \in DOMAIN bus : bus[i].k = k}

\* C24: every byte transfer of Initialize(), Read() and Zero() happens while
\* the chip-select line is low and while the bus transaction that this
\* operation opened is still open.
C24_TransferSelected ==
  AtStmt("xfer")
    => /\ pinLevel = LOW
       /\ spiOpen = 1 /\ spiCfg = spiSettings
       /\ Cardinality(Events("begin")) = 1 /\ Events("end") = {}

C24_Witness ==
  /\ AtStmt("xfer") /\ op = "Initialize" /\ Stmt.v = 144
  /\ pinLevel = LOW /\ spiOpen = 1 /\ Events("end") = {}

\* C25: Initialize(), Read() (16- or 32-bit) and Zero() each open the bus
\* transaction once, before the first chip-select assertion, and close it
\* once, after the last deassertion, so begin and end alternate across calls
\* and no transaction is open when an operation returns; Initialize() and
\* Zero() run both their chip-select cycles inside the one transaction.
C25_OneTransaction ==
  /\ spiOpen \in {0, 1}
  /\ Idle => spiOpen = 0
  /\ \A o \in {"Initialize", "Read", "Zero"} :
       (Returned(o) /\ (o = "Read" => mode \in {BITS_32, BITS_16}))
         => /\ Cardinality(Events("begin")) = 1
            /\ Cardinality(Events("end")) = 1
            /\ \A b \in Events("begin"), e \in Events("end"), i \in Events("ss") :
                  b < i /\ i < e
            /\ Cardinality({i \in Events("ss") : bus[i].v = LOW})
                  = (IF o = "Read" THEN 1 ELSE 2)

C25_Witness ==
  /\ Returned("Zero") /\ spiOpen = 0 /\ hist.inited
  /\ Cardinality(Events("begin")) = 1 /\ Cardinality(Events("end")) = 1
  /\ Cardinality({i \in Events("ss") : bus[i].v = LOW}) = 2

\* C26: once Initialize() has run, the number of count bytes Read() clocks in
\* is the byte width Initialize() programmed into MDR1 of the channel's chip:
\* width code 0 with four bytes, width code 2 with two, after any sequence of
\* operations.
C26_WidthMatches ==
  (Returned("Read") /\ hist.inited /\ mode \in {BITS_32, BITS_16})
    => /\ chip.mdr1 = mode
       /\ Len(rx) - 1 = ChipWidth(chip)
       /\ chip.mdr1 = 0 => Len(rx) - 1 = 4
       /\ chip.mdr1 = 2 => Len(rx) - 1 = 2

C26_Witness ==
  /\ Returned("Read") /\ hist.inited /\ hist.zeroed /\ mode = BITS_16
  /\ chip.mdr1 = 2 /\ Len(rx) = 3

\* The chip's mode registers, and all registers the driver can write.
ModeRegs == <<chip.mdr0, chip.mdr1>>
WrittenRegs == <<chip.mdr0, chip.mdr1, chip.dtr, chip.cntr>>

\* C27: only Initialize() writes the mode registers and only Zero() writes
\* DTR and loads the counter.  Read() sends 0x60 and 0x00 bytes only and
\* leaves MDR0, MDR1, DTR and the counter unchanged, Zero() leaves MDR0 and
\* MDR1 unchanged, so the mode programmed by Initialize() persists across
\* later Read() and Zero() calls.
C27_RegisterFrame ==
  /\ [][op = "Read" => WrittenRegs' = WrittenRegs]_chip
  /\ [][op = "Zero" => ModeRegs' = ModeRegs]_chip
  /\ [][op = "Initialize" => <<chip.dtr, chip.cntr>>' = <<chip.dtr, chip.cntr>>]_chip
  /\ [](op = "Read" => \A i \in Events("xfer") : bus[i].v \in {96, 0})
  /\ [](hist.inited => (chip.mdr0 = 1 /\ chip.mdr1 = mode))

C27_Witness ==
  /\ Returned("Read") /\ hist.inited /\ hist.zeroed /\ mode = BITS_16
  /\ chip.mdr0 = 1 /\ chip.mdr1 = 2 /\ TxBytes = <<96, 0, 0>>

\* C29: when the counter mode is neither 32-bit nor 16-bit, Read() returns 0
\* without asserting chip-select, opening a bus transaction or transferring
\* a byte.
C29_UnknownModeReadsZero ==
  (op = "Read" /\ mode \notin {BITS_32, BITS_16})
    => /\ bus = << >> /\ rx = << >>
       /\ pinLevel = HIGH /\ spiOpen = 0
       /\ pc = 0 => ret = 0

C29_Witness ==
  /\ Returned("Read") /\ mode = 1 /\ hist.inited
  /\ ret = 0 /\ bus = << >> /\ chip.cntr = <<0, 0, 1, 44>>

------------------------------------------------------------------------------
(* Properties of two channels sharing the bus, checked under SpecTwo *)

\* The chip-select lines that are asserted.
SelectedLines ==
  (IF pinLevel = LOW THEN {ss} ELSE {})
    \cup (IF other.pinLevel = LOW THEN {other.ss} ELSE {})

\* C14: with two channels on distinct chip-select lines and a caller that
\* invokes operations one at a time, at most one line is asserted in every
\* reachable state, and every byte is transferred while exactly one device
\* is selected.
C14_OneSelected ==
  /\ ss # other.ss
  /\ Cardinality(SelectedLines) <= 1
  /\ AtStmt("xfer") => SelectedLines = {ss}

C14_Witness ==
  /\ AtStmt("xfer") /\ op = "Read" /\ ss = SPI_SS - 1
  /\ SelectedLines = {ss}
  /\ other.hist.inited /\ other.hist.zeroed /\ other.ss = SPI_SS

------------------------------------------------------------------------------
(* Properties of construction, checked under SpecConstruct *)

\* The pin drives the chip-select line low.
DrivenLow == pinDir = "OUTPUT" /\ pinLevel = LOW

\* C17: construction writes the high level and then makes the pin an output,
\* so the line is never driven low by construction; it performs no bus
\* transfer and opens no bus transaction, and leaves the pin an output at
\* high.
C17_Construction ==
  op = "LS7366R"
    => /\ ~DrivenLow
       /\ spiOpen = 0 /\ spiCfg = NoSettings /\ rx = << >>
       /\ \A i \in DOMAIN bus : bus[i].k \in {"ss", "mode"}
       /\ pc = 0 => /\ pinLevel = HIGH /\ pinDir = "OUTPUT"
                    /\ [i \in DOMAIN bus |-> bus[i].k] = <<"ss", "mode">>

C17_Witness ==
  /\ Returned("LS7366R") /\ pinLevel = HIGH /\ pinDir = "OUTPUT"
  /\ Len(bus) = 2 /\ bus[1] = Ev("ss", HIGH)

------------------------------------------------------------------------------
(* Progress of the operations, checked under SpecConstruct *)

\* An operation has been called and has not returned.
Running == op \in {"Initialize", "Read", "Zero"} /\ pc >= 1

\* The number of byte transfers of a whole operation.
Transfers(o) ==
  CASE o = "Initialize" -> 4
    [] o = "Zero"       -> 6
    [] o = "Read"       -> IF mode = BITS_32 THEN 5
                           ELSE IF mode = BITS_16 THEN 3 ELSE 0

\* C21: each operation performs a fixed number of byte transfers and then
\* returns: Initialize() 4, Read() 5 (32-bit) or 3 (16-bit), Zero() 6.  No
\* statement is executed again: a started operation always has a next
\* statement to execute, every step moves it one statement forward, and the
\* step after its last statement is the return.
C21_FixedTransfers ==
  /\ [](Running => /\ Len(rx) <= Transfers(op)
                   /\ pc <= Len(Body(op)) + 1
                   /\ ENABLED Step)
  /\ [](\A o \in {"Initialize", "Read", "Zero"} :
           Returned(o) => Len(rx) = Transfers(o))
  /\ [][Running => (pc' = pc + 1 \/ (pc' = 0 /\ pc = Len(Body(op)) + 1))]_<<op, pc>>

C21_Witness ==
  /\ Returned("Zero") /\ hist.inited /\ Len(rx) = 6
  /\ TxBytes = <<152, 0, 0, 0, 0, 224>>

------------------------------------------------------------------------------
(* Properties of two unlocked tasks, checked under SpecTasks *)

\* C22: the driver has no lock of its own.  Whatever the other task holds,
\* a started operation can always execute its next statement, and when the
\* steps of two tasks interleave both chip-select lines can be asserted at
\* the same time, which happens only while both tasks are inside a call.
C22_NoLock ==
  /\ Running => ENABLED Step
  /\ Cardinality(SelectedLines) = 2
       => (Running /\ other.op = "Read" /\ other.pc >= 1)

C22_Witness ==
  /\ Cardinality(SelectedLines) = 2 /\ spiOpen = 2
  /\ op = "Read" /\ other.op = "Read" /\ AtStmt("xfer")

------------------------------------------------------------------------------
(* Properties of the test harness, checked under SpecHarness *)

\* C23: in the harness Initialize() is called once, on the constructed
\* channel and before the first Read(); once it has returned every call is
\* a Read(), and Zero() is never called.
C23_HarnessOrder ==
  /\ [](op # "Zero" /\ ~hist.zeroed)
  /\ [](op = "Read" => hist.inited)
  /\ [](op = "Initialize" => (pinDir = "OUTPUT" /\ (pc >= 1 => ~hist.inited)))
  /\ [][(op = "none" /\ op' # "none")
          => IF hist.inited THEN op' = "Read" ELSE op' = "Initialize"]_<<op, pc>>
  /\ [][hist.inited => hist.inited']_hist

C23_Witness ==
  /\ Returned("Read") /\ hist.inited /\ ~hist.zeroed
  /\ rx = <<0, 0, 0, 1, 44>> /\ ret = 300

====
